---- MODULE Spec2Model ----
(***************************************************************************)
(* Single-node ledger engine (src/main/blockchain.py) driven by the Flask  *)
(* handlers of src/main/app.py.                                            *)
(*                                                                         *)
(* Modelling conventions                                                   *)
(*  - A Python str that can stand where a digest stands is the record      *)
(*    [str |-> s]; JSON null / Python None is Null.                        *)
(*  - A SHA-256 hex digest is the record [w |-> n, of |-> preimage]: `of`  *)
(*    makes the digest collision free, `w` decides its leading characters  *)
(*    (HexLen characters are modelled, over the alphabet "0" / "f").       *)
(*  - Key pairs are taken, in order, from KeyPairs; an ECDSA signature is  *)
(*    the pair (signing key, signed data).                                 *)
(*  - Timestamps are seconds drawn from Timestamps.                        *)
(*  - The file system belongs to the environment: save_blockchain_to_file  *)
(*    yields the document it writes, and load_blockchain_from_file is      *)
(*    given any document of FileInputs (the one the engine would write     *)
(*    now, damaged copies of it, a document written by another run).       *)
(***************************************************************************)
EXTENDS Integers, Sequences, FiniteSets, TLC

(* ----------------------------- bounds ---------------------------------- *)
MaxWallets == 2      \* wallets created through create_wallet in one run
MaxChain == 3        \* blocks in block_list
MaxPending == 1      \* transactions waiting in pending_transactions
MaxTime == 1         \* timestamps are 1..MaxTime
MaxLoads == 1        \* load requests served in one run
MaxThreads == 2      \* requests the server works on at the same time
HexLen == 5          \* modelled leading characters of a hex digest

(* ------------------------ program constants ---------------------------- *)
mining_reward == 50
difficulty == 4

Null == [null |-> TRUE]
Str(s) == [str |-> s]
Truthy(v) == v # Null /\ v # Str("")

Timestamps == 1..MaxTime
Names == <<"Alice", "Bob", "Carol", "Dave">>
KeyPairs == <<[sk |-> "sk1", pk |-> "pk1"], [sk |-> "sk2", pk |-> "pk2"],
              [sk |-> "sk3", pk |-> "pk3"], [sk |-> "sk4", pk |-> "pk4"]>>
\* SigningKey.generate in a wallet built for the registry (create_wallet's
\* copy, every wallet rebuilt by a load): each call yields a new pair that no
\* caller ever sees; one name stands for all of them
SpareKeyPair == [sk |-> "sk9", pk |-> "pk9"]
AllKeyPairs == {KeyPairs[i] : i \in DOMAIN KeyPairs} \cup {SpareKeyPair}

RECURSIVE Pow2(_)
Pow2(n) == IF n = 0 THEN 1 ELSE 2 * Pow2(n - 1)
HashMod == Pow2(HexLen)

(* ------------------------------ hashing -------------------------------- *)
W(v) == IF "w" \in DOMAIN v THEN v.w ELSE 0
KeyW(k) == CASE k = "pk1" -> 1 [] k = "pk2" -> 2 [] k = "pk3" -> 3
             [] k = "pk4" -> 4 [] k = "pk9" -> 5 [] OTHER -> 0
DescW(d) == IF d = "Genesis Block" THEN 1 ELSE 2

HexDigit(d) == IF d = 0 THEN "0" ELSE "f"
\* the first HexLen characters of hexdigest()
HexPrefix(h) == [i \in 1..HexLen |-> HexDigit((h.w \div Pow2(HexLen - i)) % 2)]
startswith(h, target) ==
    /\ Len(target) <= HexLen
    /\ SubSeq(HexPrefix(h), 1, Len(target)) = target
Zeros(n) == [i \in 1..n |-> "0"]

\* hashlib.sha256(json.dumps(dict_copy, sort_keys=True).encode()).hexdigest()
Block_hash(b) ==
    LET dict_copy == [index |-> b.index, timestamp |-> b.timestamp,
                      previous_hash |-> b.previous_hash, nonce |-> b.nonce,
                      merkle_root |-> b.merkle_root,
                      block_description |-> b.block_description]
    IN [w |-> (3 * b.index + 5 * b.timestamp + 7 * W(b.previous_hash)
               + 11 * b.nonce + 13 * W(b.merkle_root)
               + DescW(b.block_description)) % HashMod,
        of |-> dict_copy]

RECURSIVE pow_search(_, _)
pow_search(b, target) ==
    IF startswith(Block_hash(b), target) THEN b
    ELSE pow_search([b EXCEPT !.nonce = b.nonce + 1], target)

proof_of_work_from_current_nonce(b, diff) == pow_search(b, Zeros(diff))
proof_of_work_no_search(b, diff) == [b EXCEPT !.nonce = 0]
\* Block.proof_of_work: the block with the winning nonce (its return value)
proof_of_work(b, diff) == pow_search([b EXCEPT !.nonce = 0], Zeros(diff))

(* ---------------------------- transactions ----------------------------- *)
NoData == [s |-> "", r |-> "", a |-> 0]
NoSignature == [kind |-> "None", key |-> "", data |-> NoData]
RewardSignature == [kind |-> "bytes", key |-> "mining_reward", data |-> NoData]
SigTruthy(sig) == sig # NoSignature

\* Transaction.__init__
Transaction(sender, receiver, amount, signature) ==
    [sender_pub_key |-> sender, receiver_pub_key |-> receiver, amount |-> amount,
     signature |-> IF SigTruthy(signature) THEN signature ELSE NoSignature]

TxData(tx) == [s |-> tx.sender_pub_key, r |-> tx.receiver_pub_key, a |-> tx.amount]

\* Transaction.sign
sign(tx, sk) == [tx EXCEPT !.signature = [kind |-> "ecdsa", key |-> sk, data |-> TxData(tx)]]

IsPrivateKeyHex(k) == \E p \in AllKeyPairs : p.sk = k
IsPublicKeyHex(k) == \E p \in AllKeyPairs : p.pk = k
get_verifying_key(sk) == (CHOOSE p \in AllKeyPairs : p.sk = sk).pk

\* Transaction.verify: "True", or the exception vk.verify / from_string raises
verify(tx, public_key) ==
    IF ~IsPublicKeyHex(public_key) THEN "raised ValueError"
    ELSE IF /\ tx.signature.kind = "ecdsa"
            /\ IsPrivateKeyHex(tx.signature.key)
            /\ get_verifying_key(tx.signature.key) = public_key
            /\ tx.signature.data = TxData(tx)
         THEN "True"
         ELSE "raised BadSignatureError"

\* bytes.hex() and bytes.fromhex()
ToHex(sig) == [hex |-> sig]
FromHex(h) == h.hex

\* Transaction.to_dict
Transaction_to_dict(tx) ==
    [sender |-> tx.sender_pub_key, receiver |-> tx.receiver_pub_key,
     amount |-> tx.amount,
     signature |-> IF SigTruthy(tx.signature) THEN ToHex(tx.signature) ELSE Null]

SigW(s) == IF s = Null THEN 0 ELSE IF s.hex.kind = "ecdsa" THEN 1 ELSE 2
\* hashlib.sha256(json.dumps(tx.to_dict(), sort_keys=True).encode()).hexdigest()
TxHash(d) == [w |-> (3 * KeyW(d.sender) + 5 * KeyW(d.receiver) + 7 * d.amount
                     + SigW(d.signature)) % HashMod,
              of |-> d]
\* hashlib.sha256("".encode()).hexdigest()
EmptyHash == [w |-> 7 % HashMod, of |-> Str("")]
\* hashlib.sha256((left + right).encode()).hexdigest()
PairHash(left, right) == [w |-> (2 * left.w + right.w + 1) % HashMod,
                          of |-> [left |-> left, right |-> right]]

RECURSIVE MerkleLayers(_)
MerkleLayers(tx_hashes) ==
    IF Len(tx_hashes) <= 1 THEN tx_hashes
    ELSE MerkleLayers(
           [j \in 1..((Len(tx_hashes) + 1) \div 2) |->
              LET i == 2 * j - 1
                  left == tx_hashes[i]
                  right == IF i + 1 <= Len(tx_hashes) THEN tx_hashes[i + 1] ELSE left
              IN PairHash(left, right)])

calculate_merkle_root_pairs_single(transactions) ==
    LET tx_hashes == [i \in 1..Len(transactions) |->
                        TxHash(Transaction_to_dict(transactions[i]))]
    IN IF tx_hashes = <<>> THEN EmptyHash
       ELSE IF Len(tx_hashes) = 1 THEN PairHash(tx_hashes[1], tx_hashes[1])
       ELSE MerkleLayers(tx_hashes)[1]
\* Block.calculate_merkle_root
calculate_merkle_root(transactions) ==
    LET tx_hashes == [i \in 1..Len(transactions) |->
                        TxHash(Transaction_to_dict(transactions[i]))]
    IN IF tx_hashes = <<>> THEN EmptyHash ELSE MerkleLayers(tx_hashes)[1]

\* Block.__init__
Block(index, timestamp, transactions, previous_hash, nonce, block_description, merkle_root) ==
    [index |-> index, timestamp |-> timestamp, transactions |-> transactions,
     previous_hash |-> previous_hash, nonce |-> nonce,
     block_description |-> block_description,
     merkle_root |-> IF Truthy(merkle_root) THEN merkle_root
                     ELSE calculate_merkle_root(transactions)]

(* ------------------------------ wallets -------------------------------- *)
\* Wallet.__init__; `generated` is the pair SigningKey.generate would return.
\* The public_key argument is accepted and never read.
Wallet(name, balance, private_key, public_key, generated) ==
    IF private_key # ""
    THEN [name |-> name, balance |-> balance, private_key |-> private_key,
          public_key |-> get_verifying_key(private_key)]
    ELSE [name |-> name, balance |-> balance, private_key |-> generated.sk,
          public_key |-> generated.pk]

\* Wallet.get_public_key
get_public_key(wallet) == wallet.public_key

\* Wallet.to_dict
Wallet_to_dict(wallet) ==
    [name |-> wallet.name, balance |-> wallet.balance,
     public_key |-> get_public_key(wallet)]

(* ------------------------------ engine --------------------------------- *)
\* Blockchain.__init__
Blockchain == [block_list |-> <<>>, wallets |-> <<>>, pending_transactions |-> <<>>]

Return(self, ret) == [self |-> self, ret |-> ret]
Last(s) == s[Len(s)]

credit_miner_twice(registry, miner_pub_key) ==
    IF miner_pub_key \in DOMAIN registry
    THEN [registry EXCEPT ![miner_pub_key].balance = @ + 2 * mining_reward]
    ELSE registry
credit_miner_uncredited(registry, miner_pub_key) == registry
\* Blockchain.mine_block, the balance update after the block is appended
credit_miner(registry, miner_pub_key) ==
    IF miner_pub_key \in DOMAIN registry
    THEN [registry EXCEPT ![miner_pub_key].balance = @ + mining_reward]
    ELSE registry

transfer_debit_only(registry, sender_pub_key, receiver_pub_key, amount) ==
    [registry EXCEPT ![sender_pub_key].balance = @ - amount]
\* Blockchain.add_transaction, the two balance updates
transfer(registry, sender_pub_key, receiver_pub_key, amount) ==
    LET debited == [registry EXCEPT ![sender_pub_key].balance = @ - amount]
    IN [debited EXCEPT ![receiver_pub_key].balance = @ + amount]

\* Blockchain.genesis_block
genesis_block(self, now) ==
    LET block == Block(0, now, <<>>, Str("0"), 0, "Genesis Block", Null)
    IN [self EXCEPT !.block_list = Append(@, proof_of_work(block, difficulty))]

mine_block_touches_last(self, miner_pub_key, now) ==
    LET reward_tx == [Transaction("0", miner_pub_key, mining_reward, NoSignature)
                        EXCEPT !.signature = RewardSignature]
        staged == [self EXCEPT !.pending_transactions = Append(@, reward_tx)]
    IN IF staged.block_list = <<>>
       THEN Return(staged, "raised IndexError")
       ELSE
         LET n == Len(staged.block_list)
             new_block == Block(n, now, staged.pending_transactions,
                                Block_hash(staged.block_list[n]), 0, "Block", Null)
             touched == [staged.block_list EXCEPT ![n].nonce = @ + 1]
         IN Return([block_list |-> Append(touched, proof_of_work(new_block, difficulty)),
                    wallets |-> credit_miner(staged.wallets, miner_pub_key),
                    pending_transactions |-> <<>>], "None")

\* Blockchain.mine_block
mine_block(self, miner_pub_key, now) ==
    LET reward_tx == [Transaction("0", miner_pub_key, mining_reward, NoSignature)
                        EXCEPT !.signature = RewardSignature]
        staged == [self EXCEPT !.pending_transactions = Append(@, reward_tx)]
    IN IF staged.block_list = <<>>
       THEN Return(staged, "raised IndexError")
       ELSE
         LET last_block == Last(staged.block_list)
             new_block == Block(Len(staged.block_list), now,
                                staged.pending_transactions,
                                Block_hash(last_block), 0, "Block", Null)
             mined == proof_of_work(new_block, difficulty)
             credited == credit_miner(staged.wallets, miner_pub_key)
         IN Return([block_list |-> Append(staged.block_list, mined),
                    wallets |-> credited,
                    pending_transactions |-> <<>>], "None")

add_transaction_funds_inclusive(self, sender_pub_key, receiver_pub_key, amount, private_key) ==
    IF sender_pub_key \notin DOMAIN self.wallets \/ receiver_pub_key \notin DOMAIN self.wallets
    THEN Return(self, "Invalid sender or receiver public key")
    ELSE IF self.wallets[sender_pub_key].balance <= amount
    THEN Return(self, "Insufficient funds")
    ELSE IF ~IsPrivateKeyHex(private_key)
    THEN Return(self, "raised ValueError")
    ELSE IF get_verifying_key(private_key) # sender_pub_key
    THEN Return(self, "Private key does not match sender's public key")
    ELSE
      LET tx == sign(Transaction(sender_pub_key, receiver_pub_key, amount, NoSignature),
                     private_key)
      IN Return([self EXCEPT !.wallets = transfer(@, sender_pub_key, receiver_pub_key, amount),
                             !.pending_transactions = Append(@, tx)],
                "Transaction added to pending list")

add_transaction_key_check_first(self, sender_pub_key, receiver_pub_key, amount, private_key) ==
    IF sender_pub_key \notin DOMAIN self.wallets \/ receiver_pub_key \notin DOMAIN self.wallets
    THEN Return(self, "Invalid sender or receiver public key")
    ELSE IF ~IsPrivateKeyHex(private_key)
    THEN Return(self, "raised ValueError")
    ELSE IF get_verifying_key(private_key) # sender_pub_key
    THEN Return(self, "Private key does not match sender's public key")
    ELSE IF self.wallets[sender_pub_key].balance < amount
    THEN Return(self, "Insufficient funds")
    ELSE
      LET tx == sign(Transaction(sender_pub_key, receiver_pub_key, amount, NoSignature),
                     private_key)
      IN Return([self EXCEPT !.wallets = transfer(@, sender_pub_key, receiver_pub_key, amount),
                             !.pending_transactions = Append(@, tx)],
                "Transaction added to pending list")

add_transaction_debit_before_key_check(self, sender_pub_key, receiver_pub_key, amount, private_key) ==
    IF sender_pub_key \notin DOMAIN self.wallets \/ receiver_pub_key \notin DOMAIN self.wallets
    THEN Return(self, "Invalid sender or receiver public key")
    ELSE IF self.wallets[sender_pub_key].balance < amount
    THEN Return(self, "Insufficient funds")
    ELSE
      LET credited == transfer(self.wallets, sender_pub_key, receiver_pub_key, amount)
          paid == [self EXCEPT !.wallets = credited]
      IN IF ~IsPrivateKeyHex(private_key)
         THEN Return(paid, "raised ValueError")
         ELSE IF get_verifying_key(private_key) # sender_pub_key
         THEN Return(paid, "Private key does not match sender's public key")
         ELSE
           LET tx == sign(Transaction(sender_pub_key, receiver_pub_key, amount, NoSignature),
                          private_key)
           IN Return([paid EXCEPT !.pending_transactions = Append(@, tx)],
                     "Transaction added to pending list")
\* Blockchain.add_transaction
add_transaction(self, sender_pub_key, receiver_pub_key, amount, private_key) ==
    IF sender_pub_key \notin DOMAIN self.wallets \/ receiver_pub_key \notin DOMAIN self.wallets
    THEN Return(self, "Invalid sender or receiver public key")
    ELSE IF self.wallets[sender_pub_key].balance < amount
    THEN Return(self, "Insufficient funds")
    ELSE IF ~IsPrivateKeyHex(private_key)
    THEN Return(self, "raised ValueError")
    ELSE IF get_verifying_key(private_key) # sender_pub_key
    THEN Return(self, "Private key does not match sender's public key")
    ELSE
      LET tx == sign(Transaction(sender_pub_key, receiver_pub_key, amount, NoSignature),
                     private_key)
          verdict == verify(tx, sender_pub_key)
      IN IF verdict # "True"
         THEN Return(self, verdict)
         ELSE
           LET credited == transfer(self.wallets, sender_pub_key, receiver_pub_key, amount)
           IN Return([self EXCEPT !.wallets = credited,
                                  !.pending_transactions = Append(@, tx)],
                     "Transaction added to pending list")

create_wallet_initial_grant(self, name, generated) ==
    LET wallet == Wallet(name, 0, "", "", generated)
        pub_key == get_public_key(wallet)
        copy == Wallet(name, mining_reward, "", pub_key, SpareKeyPair)
    IN Return([self EXCEPT !.wallets = (pub_key :> copy) @@ @], wallet)
create_wallet_registers_original(self, name, generated) ==
    LET wallet == Wallet(name, 0, "", "", generated)
    IN Return([self EXCEPT !.wallets = (get_public_key(wallet) :> wallet) @@ @], wallet)
\* Blockchain.create_wallet; ret is the wallet handed to the caller
create_wallet(self, name, generated) ==
    LET wallet == Wallet(name, 0, "", "", generated)
        pub_key == get_public_key(wallet)
        copy == Wallet(name, 0, "", pub_key, SpareKeyPair)
    IN Return([self EXCEPT !.wallets = (pub_key :> copy) @@ @], wallet)

\* Blockchain.check_balance
check_balance(self, public_key) ==
    IF public_key \in DOMAIN self.wallets
    THEN [found |-> TRUE, balance |-> self.wallets[public_key].balance]
    ELSE [found |-> FALSE, balance |-> 0]

validate_blockchain_without_work(self) ==
    \A i \in 2..Len(self.block_list) :
        self.block_list[i].previous_hash = Block_hash(self.block_list[i - 1])
\* Blockchain.validate_blockchain
validate_blockchain(self) ==
    \A i \in 2..Len(self.block_list) :
        LET current == self.block_list[i]
            prev == self.block_list[i - 1]
        IN /\ Block_hash(current) = Block_hash(current)
           /\ current.previous_hash = Block_hash(prev)
           /\ SubSeq(HexPrefix(Block_hash(current)), 1, difficulty) = Zeros(difficulty)

(* ---------------------------- persistence ------------------------------ *)
\* block.__dict__ as json.dump writes it (Transaction objects through to_dict)
Block_to_json(b) ==
    [index |-> b.index, timestamp |-> b.timestamp,
     transactions |-> [i \in 1..Len(b.transactions) |-> Transaction_to_dict(b.transactions[i])],
     previous_hash |-> b.previous_hash, nonce |-> b.nonce,
     block_description |-> b.block_description, merkle_root |-> b.merkle_root]

\* registry keys in the order the dict holds them
RECURSIVE KeyOrder(_)
KeyOrder(keys) ==
    IF keys = {} THEN <<>>
    ELSE LET k == CHOOSE x \in keys : \A y \in keys : KeyW(x) <= KeyW(y)
         IN <<k>> \o KeyOrder(keys \ {k})

\* Blockchain.save_blockchain_to_file: the JSON document written
save_blockchain_to_file(self) ==
    [blocks |-> [i \in 1..Len(self.block_list) |-> Block_to_json(self.block_list[i])],
     wallets |-> LET order == KeyOrder(DOMAIN self.wallets)
                 IN [i \in 1..Len(order) |->
                       [pub_key |-> order[i],
                        wallet_data |-> Wallet_to_dict(self.wallets[order[i]])]]]

TxKeys == {"sender", "receiver", "amount", "signature"}
BlockKeys == {"index", "timestamp", "transactions", "previous_hash", "nonce",
              "block_description", "merkle_root"}
\* no KeyError while one entry of data["blocks"] is rebuilt
BlockReadable(block_data) ==
    /\ BlockKeys \subseteq DOMAIN block_data
    /\ \A i \in 1..Len(block_data.transactions) :
          TxKeys \subseteq DOMAIN block_data.transactions[i]
WalletReadable(entry) == {"name", "balance"} \subseteq DOMAIN entry.wallet_data

LoadBlock_default_nonce(block_data) ==
    LET transactions ==
          [i \in 1..Len(block_data.transactions) |->
             LET tx == block_data.transactions[i]
             IN Transaction(tx.sender, tx.receiver, tx.amount,
                            IF tx.signature # Null THEN FromHex(tx.signature)
                            ELSE NoSignature)]
    IN Block(block_data.index, block_data.timestamp, transactions,
             block_data.previous_hash, 0,
             block_data.block_description, block_data.merkle_root)
\* one iteration of the block loop
LoadBlock(block_data) ==
    LET transactions ==
          [i \in 1..Len(block_data.transactions) |->
             LET tx == block_data.transactions[i]
             IN Transaction(tx.sender, tx.receiver, tx.amount,
                            IF tx.signature # Null THEN FromHex(tx.signature)
                            ELSE NoSignature)]
    IN Block(block_data.index, block_data.timestamp, transactions,
             block_data.previous_hash, block_data.nonce,
             block_data.block_description, block_data.merkle_root)

\* how many entries the block loop rebuilds before a KeyError, from n on
RECURSIVE ReadableBlocks(_, _)
ReadableBlocks(blocks, n) ==
    IF n < Len(blocks) /\ BlockReadable(blocks[n + 1])
    THEN ReadableBlocks(blocks, n + 1) ELSE n

\* how many entries the wallet loop rebuilds before a KeyError, from n on
RECURSIVE ReadableWallets(_, _)
ReadableWallets(entries, n) ==
    IF n < Len(entries) /\ WalletReadable(entries[n + 1])
    THEN ReadableWallets(entries, n + 1) ELSE n

\* one iteration of the wallet loop, folded over the entries read
RECURSIVE LoadWallets(_, _)
LoadWallets(entries, n) ==
    IF n = 0 THEN <<>>
    ELSE LET e == entries[n]
         IN (e.pub_key :> Wallet(e.wallet_data.name, e.wallet_data.balance, "",
                                 e.pub_key, SpareKeyPair))
            @@ LoadWallets(entries, n - 1)

\* Blockchain.load_blockchain_from_file; file.kind is "absent" (no such
\* path), "garbage" (json.load fails) or "json" (file.data is the document)
load_blockchain_from_file(self, file, now) ==
    IF file.kind = "absent" THEN Return(self, "File not found.")
    ELSE IF file.kind = "garbage" THEN Return(self, "raised JSONDecodeError")
    ELSE
      LET data == file.data
          cleared == [self EXCEPT !.block_list = <<>>]
      IN IF "blocks" \notin DOMAIN data THEN Return(cleared, "raised KeyError")
         ELSE
           LET nb == ReadableBlocks(data.blocks, 0)
               blocks == [i \in 1..nb |-> LoadBlock(data.blocks[i])]
               withBlocks == [self EXCEPT !.block_list = blocks]
           IN IF nb < Len(data.blocks) THEN Return(withBlocks, "raised KeyError")
              ELSE IF "wallets" \notin DOMAIN data
              THEN Return([withBlocks EXCEPT !.wallets = <<>>], "raised KeyError")
              ELSE
                LET nw == ReadableWallets(data.wallets, 0)
                    loaded == [withBlocks EXCEPT !.wallets = LoadWallets(data.wallets, nw)]
                IN IF nw < Len(data.wallets) THEN Return(loaded, "raised KeyError")
                   ELSE IF validate_blockchain(loaded)
                   THEN Return(loaded, "Blockchain loaded successfully")
                   ELSE Return(genesis_block([loaded EXCEPT !.block_list = <<>>,
                                                           !.wallets = <<>>], now),
                               "Invalid blockchain loaded! Started new.")

(* ------------------------- the running program ------------------------- *)
VARIABLES
    block_list,            \* blockchain.block_list
    wallets,               \* blockchain.wallets
    pending_transactions,  \* blockchain.pending_transactions
    started,               \* __main__ has run genesis_block and serves requests
    created,               \* number of key pairs handed out by create_wallet
    loads,                 \* number of load requests served
    outcome,               \* the last request and what its engine call returned
    scenario,              \* how far the run so far follows the reference scenario
    threads                \* the request each server thread is in the middle of

vars == <<block_list, wallets, pending_transactions, started, created, loads,
          outcome, scenario, threads>>

\* app.run serves every request in a thread of its own
Threads == 1..MaxThreads
Idle == [pc |-> "idle"]

engine == [block_list |-> block_list, wallets |-> wallets,
           pending_transactions |-> pending_transactions]

Install(self) ==
    /\ block_list' = self.block_list
    /\ wallets' = self.wallets
    /\ pending_transactions' = self.pending_transactions

Outcome(op, ret) == [op |-> op, ret |-> ret]
Follows(step, matches) == IF scenario = step - 1 /\ matches THEN step ELSE -1

Init ==
    /\ block_list = Blockchain.block_list
    /\ wallets = Blockchain.wallets
    /\ pending_transactions = Blockchain.pending_transactions
    /\ started = FALSE
    /\ created = 0
    /\ loads = 0
    /\ outcome = Outcome("init", "")
    /\ scenario = 0
    /\ threads = [t \in Threads |-> Idle]

(* what a client may type into the forms; Amounts are the values that     *)
(* float(request.form['amount']) yields                                   *)
NameInputs == {Names[created + 1], ""}
Amounts == {-20, 20, 1000}
PublicKeyInputs == {KeyPairs[i].pk : i \in 1..created} \cup {"pk0"}
PrivateKeyInputs == {KeyPairs[i].sk : i \in 1..created} \cup {"zz"}

\* app.py __main__
Startup ==
    /\ ~started
    /\ \E now \in Timestamps : Install(genesis_block(engine, now))
    /\ started' = TRUE
    /\ outcome' = Outcome("genesis_block", "None")
    /\ scenario' = Follows(1, TRUE)
    /\ UNCHANGED <<created, loads>>
    /\ UNCHANGED threads

\* app.py create_wallet (POST)
CreateWallet ==
    /\ started
    /\ created < MaxWallets
    /\ \E name \in NameInputs :
         IF name # ""
         THEN LET r == create_wallet(engine, name, KeyPairs[created + 1])
              IN /\ Install(r.self)
                 /\ created' = created + 1
                 /\ outcome' = Outcome("create_wallet", r.ret.private_key)
                 /\ scenario' = IF name = "Alice" THEN Follows(2, TRUE)
                                ELSE Follows(3, name = "Bob")
         ELSE /\ outcome' = Outcome("create_wallet", "Please enter a name.")
              /\ scenario' = -1
              /\ UNCHANGED <<block_list, wallets, pending_transactions, created>>
    /\ UNCHANGED <<started, loads>>
    /\ UNCHANGED threads

\* app.py send_transaction (POST)
SendTransaction ==
    /\ started
    /\ Len(pending_transactions) < MaxPending
    /\ \E sender_pub \in PublicKeyInputs, receiver_pub \in PublicKeyInputs,
          amount \in Amounts, private_key \in PrivateKeyInputs :
         LET r == add_transaction(engine, sender_pub, receiver_pub, amount, private_key)
         IN /\ Install(r.self)
            /\ outcome' = Outcome("add_transaction", r.ret)
            /\ scenario' = Follows(5, /\ sender_pub = KeyPairs[1].pk
                                      /\ receiver_pub = KeyPairs[2].pk
                                      /\ amount = 20
                                      /\ private_key = KeyPairs[1].sk)
    /\ UNCHANGED <<started, created, loads>>
    /\ UNCHANGED threads

\* app.py mine_block (POST)
MineBlock ==
    /\ started
    /\ Len(block_list) < MaxChain
    /\ Len(pending_transactions) <= MaxPending
    /\ \E miner_pub \in PublicKeyInputs, now \in Timestamps :
         IF miner_pub \in DOMAIN wallets
         THEN LET r == mine_block(engine, miner_pub, now)
              IN /\ Install(r.self)
                 /\ outcome' = Outcome("mine_block", r.ret)
                 /\ scenario' = IF scenario = 3 THEN Follows(4, miner_pub = KeyPairs[1].pk)
                                ELSE Follows(6, miner_pub = KeyPairs[2].pk)
         ELSE /\ outcome' = Outcome("mine_block", "Invalid miner public key.")
              /\ scenario' = -1
              /\ UNCHANGED <<block_list, wallets, pending_transactions>>
    /\ UNCHANGED <<started, created, loads>>
    /\ UNCHANGED threads

\* app.py save_blockchain (POST); the document written is
\* save_blockchain_to_file(engine), the "saved" member of FileInputs
SaveBlockchain ==
    /\ started
    /\ outcome' = Outcome("save_blockchain", "prototype/blockchain_<time>.json")
    /\ scenario' = -1
    /\ UNCHANGED <<block_list, wallets, pending_transactions, started, created, loads>>
    /\ UNCHANGED threads

(* ---- documents the environment may hold under the name that is loaded *)
Without(rec, key) == [k \in DOMAIN rec \ {key} |-> rec[k]]
NoNonceInLast(blocks) ==
    [i \in 1..Len(blocks) |->
       IF i = Len(blocks) THEN Without(blocks[i], "nonce") ELSE blocks[i]]
WrongNonceInLast(blocks) ==
    [i \in 1..Len(blocks) |->
       IF i = Len(blocks) THEN [blocks[i] EXCEPT !.nonce = @ + 1] ELSE blocks[i]]
NoBalanceInLast(entries) ==
    [i \in 1..Len(entries) |->
       IF i = Len(entries) THEN [entries[i] EXCEPT !.wallet_data = Without(@, "balance")]
       ELSE entries[i]]

\* a transfer nobody admitted, signed with a key that is not the sender's
ForgedTransaction ==
    LET tx == Transaction(KeyPairs[1].pk, KeyPairs[2].pk, 20, NoSignature)
    IN Transaction_to_dict(sign(tx, KeyPairs[2].sk))
ForgedInLast(blocks) ==
    [i \in 1..Len(blocks) |->
       IF i = Len(blocks)
       THEN [blocks[i] EXCEPT !.transactions = Append(@, ForgedTransaction)]
       ELSE blocks[i]]

WrongIndexInFirst(blocks) ==
    [i \in 1..Len(blocks) |->
       IF i = 1 THEN [blocks[i] EXCEPT !.index = @ + 1] ELSE blocks[i]]

Json(label, data) == [label |-> label, kind |-> "json", data |-> data]
Damaged(origin, doc) ==
    { Json(origin, doc),
      Json("no wallets section", Without(doc, "wallets")),
      Json("no blocks section", Without(doc, "blocks")),
      Json("no blocks", [doc EXCEPT !.blocks = <<>>]),
      Json("wrong nonce", [doc EXCEPT !.blocks = WrongNonceInLast(@)]),
      Json("forged transaction", [doc EXCEPT !.blocks = ForgedInLast(@)]),
      Json("wrong index", [doc EXCEPT !.blocks = WrongIndexInFirst(@)]),
      Json("block without nonce", [doc EXCEPT !.blocks = NoNonceInLast(@)]),
      Json("wallet without balance", [doc EXCEPT !.wallets = NoBalanceInLast(@)]) }

\* what another run of the program wrote after genesis, one wallet, one
\* block; the key pair it generated is none that this run generates
OtherRun ==
    LET a == genesis_block(Blockchain, 1)
        b == create_wallet(a, "Carol", KeyPairs[Len(KeyPairs)]).self
        c == mine_block(b, KeyPairs[Len(KeyPairs)].pk, 1).self
    IN save_blockchain_to_file(c)

FileInputs ==
    {[label |-> "absent", kind |-> "absent", data |-> Null],
     [label |-> "garbage", kind |-> "garbage", data |-> Null]}
    \cup Damaged("saved", save_blockchain_to_file(engine))
    \cup {Json("other run", OtherRun),
          Json("other run, wrong nonce",
               [OtherRun EXCEPT !.blocks = WrongNonceInLast(@)])}

\* app.py load_blockchain (POST)
LoadBlockchain ==
    /\ started
    /\ loads < MaxLoads
    /\ loads' = loads + 1
    /\ \E file \in FileInputs, now \in Timestamps :
         LET r == load_blockchain_from_file(engine, file, now)
         IN /\ Install(r.self)
            /\ outcome' = Outcome("load_blockchain: " \o file.label, r.ret)
    /\ scenario' = -1
    /\ UNCHANGED <<started, created>>
    /\ UNCHANGED threads

Next ==
    \/ Startup
    \/ CreateWallet
    \/ SendTransaction
    \/ MineBlock
    \/ SaveBlockchain
    \/ LoadBlockchain

Spec == Init /\ [][Next]_vars

(* ------------------------ concurrent requests -------------------------- *)
(* The handlers above run one at a time.  Below, a request is split where  *)
(* another thread gets to run for a long time: mine_block around the       *)
(* proof-of-work loop, add_transaction between its checks (which sign and  *)
(* verify) and its updates.  The block under construction holds the very   *)
(* list object pending_transactions names (`aliased`), so whatever is      *)
(* appended to that list shows in the block too, until the name is bound   *)
(* to a new list.                                                          *)

\* Blockchain.mine_block up to the proof-of-work: self with the reward
\* staged, ret the block built
mine_block_begin_credited(self, miner_pub_key, now) ==
    LET reward_tx == [Transaction("0", miner_pub_key, mining_reward, NoSignature)
                        EXCEPT !.signature = RewardSignature]
        staged == [self EXCEPT !.pending_transactions = Append(@, reward_tx),
                               !.wallets = credit_miner(@, miner_pub_key)]
    IN Return(staged, Block(Len(staged.block_list), now, staged.pending_transactions,
                            Block_hash(Last(staged.block_list)), 0, "Block", Null))
mine_block_begin(self, miner_pub_key, now) ==
    LET reward_tx == [Transaction("0", miner_pub_key, mining_reward, NoSignature)
                        EXCEPT !.signature = RewardSignature]
        staged == [self EXCEPT !.pending_transactions = Append(@, reward_tx)]
        last_block == Last(staged.block_list)
    IN Return(staged, Block(Len(staged.block_list), now, staged.pending_transactions,
                            Block_hash(last_block), 0, "Block", Null))

\* Blockchain.mine_block from the proof-of-work on
mine_block_end(self, new_block, miner_pub_key) ==
    [block_list |-> Append(self.block_list, proof_of_work(new_block, difficulty)),
     wallets |-> credit_miner(self.wallets, miner_pub_key),
     pending_transactions |-> <<>>]

\* list.append on the list pending_transactions names, seen by the threads
\* whose block holds that list
SeenAppend(ths, tx) ==
    [u \in Threads |->
       IF ths[u].pc = "pow" /\ ths[u].aliased
       THEN [ths[u] EXCEPT !.new_block.transactions = Append(@, tx)]
       ELSE ths[u]]
\* self.pending_transactions = [] seen by the threads whose block holds the
\* list that was named until now
SeenRebind(ths) ==
    [u \in Threads |->
       IF ths[u].pc = "pow" THEN [ths[u] EXCEPT !.aliased = FALSE] ELSE ths[u]]
\* another request took effect while thread u was mining
Disturbed(ths) ==
    [u \in Threads |->
       IF ths[u].pc = "pow" THEN [ths[u] EXCEPT !.alone = FALSE] ELSE ths[u]]
Joined(ths, tx) ==
    [u \in Threads |->
       IF ths[u].pc = "pow" THEN [ths[u] EXCEPT !.joined = Append(@, tx)] ELSE ths[u]]

\* a new request is given the first thread that is free
Free(t) == threads[t] = Idle /\ \A u \in Threads : u < t => threads[u] # Idle
Mining == {t \in Threads : threads[t].pc = "pow"}
Committing == {t \in Threads : threads[t].pc = "commit"}
ConcAmounts == {20}

\* app.py mine_block (POST) until new_block.proof_of_work is entered
MineStart(t) ==
    /\ started
    /\ Free(t)
    /\ block_list # <<>>
    /\ Len(block_list) + Cardinality(Mining) < MaxChain
    /\ Len(pending_transactions) <= MaxPending
    /\ \E miner_pub \in DOMAIN wallets, now \in Timestamps :
         LET r == mine_block_begin(engine, miner_pub, now)
             seen == Disturbed(SeenAppend(threads, Last(r.self.pending_transactions)))
         IN /\ Install(r.self)
            /\ threads' = [seen EXCEPT ![t] =
                              [pc |-> "pow", miner_pub |-> miner_pub,
                               new_block |-> r.ret, aliased |-> TRUE,
                               before |-> engine, joined |-> <<>>, alone |-> TRUE]]
    /\ outcome' = Outcome("mine_block", "mining")
    /\ scenario' = -1
    /\ UNCHANGED <<started, created, loads>>

\* the proof-of-work ends and mine_block runs to its end
MineFinish(t) ==
    /\ threads[t].pc = "pow"
    /\ Install(mine_block_end(engine, threads[t].new_block, threads[t].miner_pub))
    /\ threads' = [Disturbed(SeenRebind(threads)) EXCEPT ![t] = Idle]
    /\ outcome' = Outcome("mine_block", "None")
    /\ scenario' = -1
    /\ UNCHANGED <<started, created, loads>>

\* an exception ends the thread inside the proof-of-work loop
MineInterrupt(t) ==
    /\ threads[t].pc = "pow"
    /\ threads' = [threads EXCEPT ![t] = Idle]
    /\ outcome' = Outcome("mine_block", IF threads[t].alone THEN "interrupted"
                                        ELSE "interrupted, others served meanwhile")
    /\ scenario' = -1
    /\ UNCHANGED <<block_list, wallets, pending_transactions, started, created, loads>>

\* app.py send_transaction (POST) through the checks of add_transaction
SendCheck(t) ==
    /\ started
    /\ Free(t)
    /\ Len(pending_transactions) + Cardinality(Committing) <= MaxPending
    /\ \E sender_pub \in PublicKeyInputs, receiver_pub \in PublicKeyInputs,
          amount \in ConcAmounts, private_key \in PrivateKeyInputs :
         LET r == add_transaction(engine, sender_pub, receiver_pub, amount, private_key)
         IN IF r.ret = "Transaction added to pending list"
            THEN /\ threads' = [threads EXCEPT ![t] =
                                   [pc |-> "commit",
                                    tx |-> Last(r.self.pending_transactions)]]
                 /\ outcome' = Outcome("add_transaction", "signed")
            ELSE /\ threads' = threads
                 /\ outcome' = Outcome("add_transaction", r.ret)
    /\ scenario' = -1
    /\ UNCHANGED <<block_list, wallets, pending_transactions, started, created, loads>>

\* the balance updates and the append of add_transaction
SendCommit(t) ==
    /\ threads[t].pc = "commit"
    /\ LET tx == threads[t].tx
       IN /\ wallets' = transfer(wallets, tx.sender_pub_key, tx.receiver_pub_key, tx.amount)
          /\ pending_transactions' = Append(pending_transactions, tx)
          /\ threads' = [Disturbed(Joined(SeenAppend(threads, tx), tx)) EXCEPT ![t] = Idle]
    /\ outcome' = Outcome("add_transaction", "Transaction added to pending list")
    /\ scenario' = -1
    /\ UNCHANGED <<block_list, started, created, loads>>

ConcNext ==
    \/ Startup
    \/ CreateWallet
    \/ \E t \in Threads : MineStart(t)
    \/ \E t \in Threads : MineFinish(t)
    \/ \E t \in Threads : MineInterrupt(t)
    \/ \E t \in Threads : SendCheck(t)
    \/ \E t \in Threads : SendCommit(t)

ConcSpec == Init /\ [][ConcNext]_vars

(* ============================== claims ================================= *)
Added == "Transaction added to pending list"
Raised == {"raised IndexError", "raised ValueError", "raised BadSignatureError",
           "raised KeyError", "raised JSONDecodeError"}
balance(pub_key) == wallets[pub_key].balance

Linked(chain) ==
    \A i \in 2..Len(chain) :
        /\ chain[i].previous_hash = Block_hash(chain[i - 1])
        /\ startswith(Block_hash(chain[i]), Zeros(difficulty))

\* C1: as long as no file has been loaded, every block after the first
\* carries the hash of its predecessor as previous_hash, and its own hash
\* begins with `difficulty` characters "0".
C1_ChainLinkedAndMined == loads = 0 => Linked(block_list)

C1_Witness ==
    /\ loads = 0
    /\ Len(block_list) = 3
    /\ \E i \in 2..3 : Len(block_list[i].transactions) = 2

\* C2: from every reachable state, mine_block for a registered miner appends
\* exactly one block holding the former pending transactions followed by one
\* reward transaction ("0" -> miner, mining_reward); pending is then empty
\* and the miner's balance has grown by mining_reward.
C2_MineBlockAppendsOneBlock ==
    \A miner_pub \in DOMAIN wallets, now \in Timestamps :
        LET after == mine_block(engine, miner_pub, now).self
            reward == Transaction("0", miner_pub, mining_reward, RewardSignature)
        IN /\ Len(after.block_list) = Len(block_list) + 1
           /\ SubSeq(after.block_list, 1, Len(block_list)) = block_list
           /\ Last(after.block_list).transactions = Append(pending_transactions, reward)
           /\ after.pending_transactions = <<>>
           /\ after.wallets[miner_pub].balance = balance(miner_pub) + mining_reward

SignedTx(sender_pub, receiver_pub, amount, private_key) ==
    Transaction(sender_pub, receiver_pub, amount,
                [kind |-> "ecdsa", key |-> private_key,
                 data |-> [s |-> sender_pub, r |-> receiver_pub, a |-> amount]])

\* what every admitted transfer leaves alone, and what it adds to pending
AdmittedFrame(after, sender_pub, receiver_pub, amount, private_key) ==
    /\ after.block_list = block_list
    /\ after.pending_transactions =
         Append(pending_transactions, SignedTx(sender_pub, receiver_pub, amount, private_key))
    /\ DOMAIN after.wallets = DOMAIN wallets
    /\ \A k \in DOMAIN wallets \ {sender_pub, receiver_pub} : after.wallets[k] = wallets[k]

\* C3 as stated: an admitted transfer lowers the sender's balance by amount
\* and raises the receiver's by amount, appends that one transaction to
\* pending and changes neither the chain nor any other wallet.
C3_AdmittedTransferDebitsAndCredits ==
    \A sender_pub \in PublicKeyInputs, receiver_pub \in PublicKeyInputs,
       amount \in Amounts, private_key \in PrivateKeyInputs :
        LET r == add_transaction(engine, sender_pub, receiver_pub, amount, private_key)
        IN r.ret = Added =>
             /\ r.self.wallets[sender_pub].balance = balance(sender_pub) - amount
             /\ r.self.wallets[receiver_pub].balance = balance(receiver_pub) + amount
             /\ AdmittedFrame(r.self, sender_pub, receiver_pub, amount, private_key)

\* C3 amended: between two different wallets an admitted transfer lowers the
\* sender's balance by amount and raises the receiver's by amount; a transfer
\* from a wallet to itself leaves its balance as it was; in both cases that
\* one transaction is appended to pending and the chain and every other
\* wallet are unchanged.
C3_AdmittedTransferMovesAmount ==
    \A sender_pub \in PublicKeyInputs, receiver_pub \in PublicKeyInputs,
       amount \in Amounts, private_key \in PrivateKeyInputs :
        LET r == add_transaction(engine, sender_pub, receiver_pub, amount, private_key)
        IN r.ret = Added =>
             /\ IF sender_pub = receiver_pub
                THEN r.self.wallets[sender_pub].balance = balance(sender_pub)
                ELSE /\ r.self.wallets[sender_pub].balance = balance(sender_pub) - amount
                     /\ r.self.wallets[receiver_pub].balance = balance(receiver_pub) + amount
             /\ AdmittedFrame(r.self, sender_pub, receiver_pub, amount, private_key)

C3_Witness ==
    /\ outcome = Outcome("add_transaction", Added)
    /\ Len(pending_transactions) = 1
    /\ pending_transactions[1].amount = 20
    /\ pending_transactions[1].sender_pub_key # pending_transactions[1].receiver_pub_key
    /\ Len(block_list) >= 2

\* C4: an add_transaction call that does not admit the transaction, whatever
\* the reason, returns with chain, registry and pending exactly as before.
C4_RejectedTransferChangesNothing ==
    \A sender_pub \in PublicKeyInputs, receiver_pub \in PublicKeyInputs,
       amount \in Amounts, private_key \in PrivateKeyInputs :
        LET r == add_transaction(engine, sender_pub, receiver_pub, amount, private_key)
        IN r.ret # Added => r.self = engine

C4_Witness ==
    /\ outcome = Outcome("add_transaction", "Private key does not match sender's public key")
    /\ Len(block_list) >= 2
    /\ \E k \in DOMAIN wallets : balance(k) > 0

\* C5: no add_transaction or mine_block request ends in a raised exception;
\* every failure reaches the caller as a returned message.
C5_FailuresAreReturnedNotRaised ==
    outcome.op \in {"add_transaction", "mine_block"} => outcome.ret \notin Raised

\* C6: every wallet of the registry has a balance of at least zero.
C6_BalancesNonNegative == \A k \in DOMAIN wallets : balance(k) >= 0

\* C7: along genesis, create_wallet Alice, create_wallet Bob, mine to Alice,
\* Alice pays Bob 20, mine to Bob: Alice holds 50 after the first block,
\* then Alice 30 and Bob 20, then the chain has 3 blocks, Bob holds 70 and
\* validate_blockchain is true.
Alice == KeyPairs[1].pk
Bob == KeyPairs[2].pk
C7_ReferenceScenario ==
    /\ scenario = 4 => balance(Alice) = 50
    /\ scenario = 5 => balance(Alice) = 30 /\ balance(Bob) = 20
    /\ scenario = 6 => /\ Len(block_list) = 3
                       /\ balance(Bob) = 70
                       /\ validate_blockchain(engine)

C7_Witness == scenario = 6 /\ outcome = Outcome("mine_block", "None")

(* ---- loading ---- *)
Invalid == "Invalid blockchain loaded! Started new."
Loaded == "Blockchain loaded successfully"

\* every key the loops read is present in the document
Whole(file) ==
    /\ file.kind = "json"
    /\ {"blocks", "wallets"} \subseteq DOMAIN file.data
    /\ \A i \in 1..Len(file.data.blocks) : BlockReadable(file.data.blocks[i])
    /\ \A i \in 1..Len(file.data.wallets) : WalletReadable(file.data.wallets[i])
ChainOf(file) == [i \in 1..Len(file.data.blocks) |-> LoadBlock(file.data.blocks[i])]
RegistryOf(file) == LoadWallets(file.data.wallets, Len(file.data.wallets))

IsFreshGenesis(chain, now) ==
    /\ Len(chain) = 1
    /\ chain[1].index = 0
    /\ chain[1].timestamp = now
    /\ chain[1].transactions = <<>>
    /\ chain[1].previous_hash = Str("0")
    /\ chain[1].block_description = "Genesis Block"
    /\ chain[1].merkle_root = EmptyHash
    /\ startswith(Block_hash(chain[1]), Zeros(difficulty))

\* C8: when the chain rebuilt from the file fails validation, the load
\* returns a message and leaves one fresh genesis block, an empty registry
\* and an empty pending pool.
C8_InvalidLoadDiscardsEverything ==
    \A file \in FileInputs, now \in Timestamps :
        (started /\ Whole(file) /\ ~Linked(ChainOf(file))) =>
            LET r == load_blockchain_from_file(engine, file, now)
            IN /\ r.ret \notin Raised
               /\ IsFreshGenesis(r.self.block_list, now)
               /\ r.self.wallets = <<>>
               /\ r.self.pending_transactions = <<>>

\* C9: a load of an existing file returns a message and leaves either the
\* chain and registry from before the load, or the chain and registry of the
\* file, or one fresh genesis block with an empty registry.
C9_LoadIsAtomic ==
    \A file \in FileInputs, now \in Timestamps :
        (started /\ file.kind # "absent") =>
            LET r == load_blockchain_from_file(engine, file, now)
            IN /\ r.ret \notin Raised
               /\ \/ r.self.block_list = block_list /\ r.self.wallets = wallets
                  \/ /\ Whole(file)
                     /\ r.self.block_list = ChainOf(file)
                     /\ r.self.wallets = RegistryOf(file)
                  \/ IsFreshGenesis(r.self.block_list, now) /\ r.self.wallets = <<>>

\* C10: as long as no file has been loaded, loading the document that
\* save_blockchain_to_file writes reports success and yields a chain of the
\* same length with the same block hashes and Merkle roots, and a registry
\* with the same keys and balances.
C10_SaveLoadRoundTrip ==
    loads = 0 =>
      \A now \in Timestamps :
        LET r == load_blockchain_from_file(
                     engine, Json("saved", save_blockchain_to_file(engine)), now)
            chain == r.self.block_list
        IN /\ r.ret = Loaded
           /\ Len(chain) = Len(block_list)
           /\ \A i \in 1..Len(block_list) :
                 /\ Block_hash(chain[i]) = Block_hash(block_list[i])
                 /\ chain[i].merkle_root = block_list[i].merkle_root
           /\ DOMAIN r.self.wallets = DOMAIN wallets
           /\ \A k \in DOMAIN wallets : r.self.wallets[k].balance = balance(k)

C10_Witness ==
    /\ outcome = Outcome("load_blockchain: saved", Loaded)
    /\ Len(block_list) = 3
    /\ \E i \in 2..3 : Len(block_list[i].transactions) = 2
    /\ \E k \in DOMAIN wallets : balance(k) # 0

\* C11: validate_blockchain answers true exactly when every block after the
\* first carries the hash of its predecessor as previous_hash and has a hash
\* that begins with `difficulty` characters "0", for the chain in memory and
\* for the chain of every readable document; block 0, the transactions, their
\* signatures, the Merkle roots and the index fields do not bear on the answer.
C11_ValidateIsLinkageAndWork ==
    /\ validate_blockchain(engine) <=> Linked(block_list)
    /\ \A file \in FileInputs :
          Whole(file) =>
            (validate_blockchain([engine EXCEPT !.block_list = ChainOf(file)])
               <=> Linked(ChainOf(file)))

\* a chain holding a forged transaction under a stale Merkle root is in
\* memory and validates, while a document with a spoilt nonce does not
C11_Witness ==
    /\ outcome = Outcome("load_blockchain: forged transaction", Loaded)
    /\ Len(block_list) >= 2
    /\ validate_blockchain(engine)
    /\ Last(block_list).merkle_root # calculate_merkle_root(Last(block_list).transactions)
    /\ \E file \in FileInputs :
          /\ Whole(file)
          /\ ~validate_blockchain([engine EXCEPT !.block_list = ChainOf(file)])

\* private keys handed to callers by create_wallet so far
IssuedPrivateKeys == {KeyPairs[i].sk : i \in 1..created}
\* the string is one of the attributes the engine keeps of a wallet or of a
\* transaction; an ECDSA signature is bytes computed with the key and is not
\* the key
WalletHolds(wallet, key) == key \in {wallet.name, wallet.private_key, wallet.public_key}
TransactionHolds(tx, key) == key \in {tx.sender_pub_key, tx.receiver_pub_key}
EngineHolds(self, key) ==
    \/ \E k \in DOMAIN self.wallets : k = key \/ WalletHolds(self.wallets[k], key)
    \/ \E i \in 1..Len(self.pending_transactions) :
          TransactionHolds(self.pending_transactions[i], key)
    \/ \E i \in 1..Len(self.block_list) :
          \E j \in 1..Len(self.block_list[i].transactions) :
             TransactionHolds(self.block_list[i].transactions[j], key)

\* C12: no private key that create_wallet has handed to a caller is kept by
\* the engine: no registry wallet, pending transaction or block transaction
\* holds it, neither later nor right after the creating call, although the
\* wallet returned by that call carries it.
C12_ReturnedPrivateKeyNotStored ==
    /\ \A key \in IssuedPrivateKeys : ~EngineHolds(engine, key)
    /\ created < MaxWallets =>
          \A name \in NameInputs \ {""} :
             LET r == create_wallet(engine, name, KeyPairs[created + 1])
             IN /\ r.ret.private_key = KeyPairs[created + 1].sk
                /\ ~EngineHolds(r.self, r.ret.private_key)

C12_Witness ==
    /\ created = MaxWallets
    /\ outcome.op = "add_transaction" /\ outcome.ret = Added
    /\ pending_transactions # <<>>
    /\ pending_transactions[1].signature.key \in IssuedPrivateKeys
    /\ \E i \in 2..Len(block_list) : Len(block_list[i].transactions) = 2

\* C13: a wallet built from a public key alone has that public key and no
\* private key; every registry entry wallets[k] has public key k and no
\* private key, and is written to a document with "public_key" equal to k.
C13_RegistryWalletsArePublicOnly ==
    /\ \A k \in DOMAIN wallets :
          LET wallet == Wallet(wallets[k].name, 0, "", k, SpareKeyPair)
          IN get_public_key(wallet) = k /\ wallet.private_key = ""
    /\ \A k \in DOMAIN wallets :
          get_public_key(wallets[k]) = k /\ wallets[k].private_key = ""
    /\ LET entries == save_blockchain_to_file(engine).wallets
       IN \A i \in 1..Len(entries) :
             entries[i].wallet_data.public_key = entries[i].pub_key

\* C14: mine_block called with a key that is not in the registry fails: it
\* appends no block, stages no reward transaction, and leaves block_list,
\* pending_transactions and wallets as they were.
C14_UnregisteredMinerIsRefused ==
    started =>
      \A miner_pub_key \in PublicKeyInputs \ DOMAIN wallets, now \in Timestamps :
         LET r == mine_block(engine, miner_pub_key, now)
         IN r.ret # "None" /\ r.self = engine

\* C15: in every reachable state the Merkle root recomputed from the
\* transactions a block stores equals the block's stored merkle_root; for a
\* block without transactions it is the SHA-256 digest of the empty string.
C15_StoredMerkleRootsMatch ==
    \A i \in 1..Len(block_list) :
       /\ block_list[i].merkle_root = calculate_merkle_root(block_list[i].transactions)
       /\ block_list[i].transactions = <<>> => block_list[i].merkle_root = EmptyHash

\* C16: every transaction in pending_transactions or in a block is a reward
\* transaction (sender "0") carrying the reward signature, or carries a
\* signature that verifies under its sender's public key for its own
\* (sender, receiver, amount).
Authentic(tx) ==
    \/ tx.sender_pub_key = "0" /\ tx.signature = RewardSignature
    \/ verify(tx, tx.sender_pub_key) = "True"
C16_TransactionsAreAuthentic ==
    /\ \A i \in 1..Len(pending_transactions) : Authentic(pending_transactions[i])
    /\ \A i \in 1..Len(block_list) :
          \A j \in 1..Len(block_list[i].transactions) :
             Authentic(block_list[i].transactions[j])

\* C17: once the program has started, and after any load, block_list is not
\* empty, its first block has previous_hash "0", and no other block is a
\* genesis block.
C17_GenesisAlwaysPresent ==
    started =>
      /\ block_list # <<>>
      /\ block_list[1].previous_hash = Str("0")
      /\ \A i \in 2..Len(block_list) :
            /\ block_list[i].previous_hash # Str("0")
            /\ block_list[i].block_description # "Genesis Block"

\* C20: add_transaction reports the first check that fails, in the order
\* unknown sender or receiver, insufficient funds, private key of another
\* wallet, signature: an unregistered key is reported whatever the amount and
\* the private key, and insufficient funds are reported whatever the private
\* key.
C20_ChecksInFixedOrder ==
    \A sender_pub \in PublicKeyInputs, receiver_pub \in PublicKeyInputs,
       amount \in Amounts, private_key \in PrivateKeyInputs :
       LET r == add_transaction(engine, sender_pub, receiver_pub, amount, private_key)
           unknown == sender_pub \notin DOMAIN wallets \/ receiver_pub \notin DOMAIN wallets
           short == balance(sender_pub) < amount
           other == get_verifying_key(private_key) # sender_pub
       IN /\ unknown => r.ret = "Invalid sender or receiver public key"
          /\ ~unknown /\ short => r.ret = "Insufficient funds"
          /\ ~unknown /\ ~short /\ IsPrivateKeyHex(private_key) /\ other
               => r.ret = "Private key does not match sender's public key"
          /\ ~unknown /\ ~short /\ IsPrivateKeyHex(private_key) /\ ~other
               => r.ret = Added

\* a request failing two checks at once was answered with the earlier one,
\* in a state where every check can be passed and every check can be failed
C20_Witness ==
    /\ outcome = Outcome("add_transaction", "Insufficient funds")
    /\ created = MaxWallets
    /\ \E k \in DOMAIN wallets : balance(k) >= 20
    /\ \E k \in DOMAIN wallets : balance(k) < 20

InSeq(x, s) == \E i \in 1..Len(s) : s[i] = x

\* C18: when a mine_block call ends, every transaction that add_transaction
\* admitted while the call was in progress is either still in
\* pending_transactions or in the block just appended with that block's
\* merkle_root being the Merkle root of the block's transactions.
C18_AdmittedDuringMiningIsKept ==
    [][\A t \in Threads :
         (/\ threads[t].pc = "pow"
          /\ threads'[t] = Idle
          /\ Len(block_list') = Len(block_list) + 1)
         => \A i \in 1..Len(threads[t].joined) :
               LET tx == threads[t].joined[i]
                   mined == Last(block_list')
               IN \/ InSeq(tx, pending_transactions')
                  \/ /\ InSeq(tx, mined.transactions)
                     /\ mined.merkle_root = calculate_merkle_root(mined.transactions)]_vars

\* C19: when a mine_block call is interrupted inside the proof-of-work and
\* no other request took effect meanwhile, block_list is what it was before
\* the call, no balance differs from before the call, and
\* pending_transactions is what it was before the call followed by the
\* reward transaction for the miner.
C19_InterruptedMiningKeepsStagedReward ==
    [][\A t \in Threads :
         (/\ threads[t].pc = "pow"
          /\ threads[t].alone
          /\ threads'[t] = Idle
          /\ outcome'.ret = "interrupted")
         => LET before == threads[t].before
                reward_tx == [sender_pub_key |-> "0",
                              receiver_pub_key |-> threads[t].miner_pub,
                              amount |-> mining_reward,
                              signature |-> RewardSignature]
            IN /\ block_list' = before.block_list
               /\ \A k \in DOMAIN before.wallets :
                     wallets'[k].balance = before.wallets[k].balance
               /\ pending_transactions'
                    = Append(before.pending_transactions, reward_tx)]_vars

\* a call that found an admitted transfer pending was interrupted on a chain
\* that already holds a mined block
C19_Witness ==
    /\ outcome = Outcome("mine_block", "interrupted")
    /\ Len(block_list) >= 2
    /\ Len(pending_transactions) = 2
    /\ pending_transactions[1].sender_pub_key # "0"
    /\ pending_transactions[2].sender_pub_key = "0"
    /\ \E k \in DOMAIN wallets : balance(k) > 0

\* C21 as stated: between registered wallets add_transaction answers
\* "Insufficient funds" exactly when amount exceeds the sender's balance, and
\* a transfer of exactly the sender's balance with the sender's key is
\* admitted and leaves the sender at 0.
C21_WholeBalanceLeavesZero ==
    \A sender_pub \in DOMAIN wallets, receiver_pub \in DOMAIN wallets,
       amount \in Amounts \cup {balance(k) : k \in DOMAIN wallets},
       private_key \in PrivateKeyInputs :
       LET r == add_transaction(engine, sender_pub, receiver_pub, amount, private_key)
       IN /\ r.ret = "Insufficient funds" <=> amount > balance(sender_pub)
          /\ (amount = balance(sender_pub) /\ IsPrivateKeyHex(private_key)
              /\ get_verifying_key(private_key) = sender_pub)
               => r.ret = Added /\ r.self.wallets[sender_pub].balance = 0

\* C21: between registered wallets add_transaction answers "Insufficient
\* funds" exactly when amount exceeds the sender's balance; a transfer of
\* exactly the sender's balance with the sender's key is admitted, and leaves
\* the sender at 0 when the receiver is another wallet and at its balance
\* when the receiver is the sender.
C21_InsufficientIffAmountExceedsBalance ==
    \A sender_pub \in DOMAIN wallets, receiver_pub \in DOMAIN wallets,
       amount \in Amounts \cup {balance(k) : k \in DOMAIN wallets},
       private_key \in PrivateKeyInputs :
       LET r == add_transaction(engine, sender_pub, receiver_pub, amount, private_key)
       IN /\ r.ret = "Insufficient funds" <=> amount > balance(sender_pub)
          /\ (amount = balance(sender_pub) /\ IsPrivateKeyHex(private_key)
              /\ get_verifying_key(private_key) = sender_pub)
               => /\ r.ret = Added
                  /\ r.self.wallets[sender_pub].balance
                       = IF receiver_pub = sender_pub THEN balance(sender_pub) ELSE 0

\* a wallet has just sent all it had to another wallet
C21_Witness ==
    /\ outcome = Outcome("add_transaction", Added)
    /\ Len(pending_transactions) = 1
    /\ LET tx == pending_transactions[1]
       IN /\ tx.sender_pub_key # tx.receiver_pub_key
          /\ tx.amount > 0
          /\ balance(tx.sender_pub_key) = 0

\* blocks proof_of_work is tried on: the last block of the chain and the
\* block mine_block would build now, each with the nonce it has and with
\* other nonces
PowInputs ==
    LET stored == IF block_list = <<>> THEN {}
                  ELSE {Last(block_list)}
                       \cup {mine_block_begin(engine, "pk1", now).ret : now \in Timestamps}
    IN {[b EXCEPT !.nonce = n] : b \in stored, n \in {0, 7}} \cup stored

\* C22: right after a block was mined, proof_of_work gives the same result
\* whatever nonce the block it is applied to had;
\* the resulting hash begins with the required number of "0" characters, no
\* smaller nonce gives such a hash, and nothing but the nonce differs from
\* the block it was called on.
C22_ProofOfWorkFindsLeastNonce ==
    outcome.op \in {"genesis_block", "mine_block"} =>
      \A b \in PowInputs, diff \in 0..difficulty :
         LET mined == proof_of_work(b, diff)
         IN /\ mined = proof_of_work([b EXCEPT !.nonce = 0], diff)
            /\ startswith(Block_hash(mined), Zeros(diff))
            /\ \A n \in 0..(mined.nonce - 1) :
                  ~startswith(Block_hash([b EXCEPT !.nonce = n]), Zeros(diff))
            /\ [mined EXCEPT !.nonce = b.nonce] = b

\* a block that needed a search is in the chain, with transactions in it
C22_Witness ==
    /\ outcome = Outcome("mine_block", "None")
    /\ Len(block_list) >= 2
    /\ Last(block_list).nonce > 1
    /\ Len(Last(block_list).transactions) = 2
    /\ Last(block_list) = proof_of_work([Last(block_list) EXCEPT !.nonce = 7], difficulty)

\* transactions the Merkle root is tried on: those of the last block, the
\* pending ones and one more
MerklePool ==
    {Last(block_list).transactions[i] : i \in 1..Len(Last(block_list).transactions)}
    \cup {pending_transactions[i] : i \in 1..Len(pending_transactions)}
    \cup {sign(Transaction(KeyPairs[1].pk, KeyPairs[2].pk, 20, NoSignature), KeyPairs[2].sk)}
MerkleInputs == UNION {[1..n -> MerklePool] : n \in 1..4}
Leaf(tx) == TxHash(Transaction_to_dict(tx))
\* the aggregation written out for one to four leaves
ReferenceRoot(txs) ==
    CASE Len(txs) = 1 -> Leaf(txs[1])
      [] Len(txs) = 2 -> PairHash(Leaf(txs[1]), Leaf(txs[2]))
      [] Len(txs) = 3 -> PairHash(PairHash(Leaf(txs[1]), Leaf(txs[2])),
                                  PairHash(Leaf(txs[3]), Leaf(txs[3])))
      [] Len(txs) = 4 -> PairHash(PairHash(Leaf(txs[1]), Leaf(txs[2])),
                                  PairHash(Leaf(txs[3]), Leaf(txs[4])))

\* C23: for every list of one to four transactions calculate_merkle_root
\* yields the aggregation of the leaf hashes in order, adjacent pairs hashed
\* together and a last unpaired hash paired with itself; for one transaction
\* it is the leaf hash itself.
C23_MerkleRootIsReferenceAggregation ==
    outcome.op = "mine_block" /\ block_list # <<>> =>
      \A txs \in MerkleInputs : calculate_merkle_root(txs) = ReferenceRoot(txs)

\* a block with a transfer and a reward has just been mined, its root being
\* the pair hash of its two leaves
C23_Witness ==
    /\ outcome = Outcome("mine_block", "None")
    /\ Len(Last(block_list).transactions) = 2
    /\ Cardinality(MerklePool) >= 3
    /\ Last(block_list).merkle_root = ReferenceRoot(Last(block_list).transactions)

\* C24: every request other than a load leaves each block of the chain as
\* it was (header fields, hence hash, nonce and merkle_root, and the
\* transaction list) and at its place; blocks are only added at the end.
C24_ChainIsAppendOnly ==
    [][loads' = loads =>
         /\ Len(block_list') >= Len(block_list)
         /\ \A i \in 1..Len(block_list) :
               /\ block_list'[i] = block_list[i]
               /\ Block_hash(block_list'[i]) = Block_hash(block_list[i])]_vars

\* a third block was appended to a chain whose second block holds a transfer
C24_Witness ==
    /\ outcome = Outcome("mine_block", "None")
    /\ Len(block_list) = 3
    /\ Len(block_list[2].transactions) = 2
    /\ loads = 0

\* C25: on every request other than a load no registry key disappears and
\* no entry changes but in its balance; a balance changes only for the
\* sender and the receiver of a transfer that was just admitted or for the
\* miner of a block that was just mined; create_wallet adds one entry with
\* balance 0; saving changes nothing.
C25_WalletLifecycle ==
    [][loads' = loads =>
         /\ DOMAIN wallets \subseteq DOMAIN wallets'
         /\ \A k \in DOMAIN wallets :
               /\ [wallets'[k] EXCEPT !.balance = balance(k)] = wallets[k]
               /\ wallets'[k].balance # balance(k) =>
                     \/ /\ outcome' = Outcome("add_transaction", Added)
                        /\ k \in {Last(pending_transactions').sender_pub_key,
                                  Last(pending_transactions').receiver_pub_key}
                     \/ /\ outcome' = Outcome("mine_block", "None")
                        /\ k = Last(Last(block_list').transactions).receiver_pub_key
         /\ DOMAIN wallets' # DOMAIN wallets =>
               /\ outcome'.op = "create_wallet"
               /\ Cardinality(DOMAIN wallets' \ DOMAIN wallets) = 1
               /\ \A k \in DOMAIN wallets' \ DOMAIN wallets : wallets'[k].balance = 0
         /\ outcome'.op = "create_wallet" /\ outcome'.ret # "Please enter a name."
               => DOMAIN wallets' # DOMAIN wallets
         /\ outcome'.op = "save_blockchain"
               => UNCHANGED <<block_list, wallets, pending_transactions>>]_vars

\* a second wallet was created while the first one holds coins
C25_Witness ==
    /\ outcome.op = "create_wallet"
    /\ created = 2
    /\ Cardinality(DOMAIN wallets) = 2
    /\ \E k \in DOMAIN wallets : balance(k) > 0
    /\ \E k \in DOMAIN wallets : balance(k) = 0

\* C26: in every reachable state every block's index is its position in the
\* chain, counted from 0, so no two blocks share an index.
C26_IndexIsPosition ==
    /\ \A i \in 1..Len(block_list) : block_list[i].index = i - 1
    /\ \A i, j \in 1..Len(block_list) :
          block_list[i].index = block_list[j].index => i = j

\* C27: whatever the interleaving of the requests, no wallet that transfers
\* are debited from ever has a negative balance.
C27_ConcurrentTransfersNeverOverdraw ==
    \A k \in DOMAIN wallets : ~(balance(k) < 0)

\* C28: whatever the interleaving of the requests, no two blocks of the
\* chain have the same index or the same previous_hash, and every block
\* after the first carries the hash of its predecessor as previous_hash.
C28_ConcurrentMiningKeepsChainLinked ==
    /\ \A i, j \in 1..Len(block_list) :
          i # j => /\ block_list[i].index # block_list[j].index
                   /\ block_list[i].previous_hash # block_list[j].previous_hash
    /\ \A i \in 2..Len(block_list) :
          block_list[i].previous_hash = Block_hash(block_list[i - 1])

\* amounts received minus amounts sent by wallet k over a list of transactions
RECURSIVE Net(_, _)
Net(txs, k) ==
    IF txs = <<>> THEN 0
    ELSE (IF txs[1].receiver_pub_key = k THEN txs[1].amount ELSE 0)
         - (IF txs[1].sender_pub_key = k THEN txs[1].amount ELSE 0)
         + Net(Tail(txs), k)
RECURSIVE Ledger(_)
Ledger(chain) ==
    IF chain = <<>> THEN <<>> ELSE chain[1].transactions \o Ledger(Tail(chain))

C30_PendingPartiesAreRegistered ==
    \A i \in 1..Len(pending_transactions) :
       pending_transactions[i].sender_pub_key # "0" =>
          /\ pending_transactions[i].sender_pub_key \in DOMAIN wallets
          /\ pending_transactions[i].receiver_pub_key \in DOMAIN wallets

\* C31: no call other than a load lowers a wallet's balance, except an
\* add_transaction call whose sender is that wallet and whose private key
\* derives to that wallet's public key.
C31_OnlyTheOwnerLowersABalance ==
    started =>
      /\ \A sender_pub \in PublicKeyInputs, receiver_pub \in PublicKeyInputs,
            amount \in Amounts, private_key \in PrivateKeyInputs :
            LET r == add_transaction(engine, sender_pub, receiver_pub, amount, private_key)
            IN \A k \in DOMAIN wallets :
                  r.self.wallets[k].balance < balance(k) =>
                     /\ k = sender_pub
                     /\ IsPrivateKeyHex(private_key)
                     /\ get_verifying_key(private_key) = k
      /\ \A miner_pub \in PublicKeyInputs, now \in Timestamps :
            \A k \in DOMAIN wallets :
               ~(mine_block(engine, miner_pub, now).self.wallets[k].balance < balance(k))
      /\ created < MaxWallets =>
            \A k \in DOMAIN wallets :
               ~(create_wallet(engine, "Alice", KeyPairs[created + 1]).self.wallets[k].balance
                   < balance(k))

\* C32: two transaction lists that differ in length, content or order never
\* have the same Merkle root; in particular a list and the same list with its
\* last transaction repeated have different roots.
C32_MerkleRootIdentifiesTheList ==
    outcome.op = "mine_block" /\ block_list # <<>> =>
      /\ \A txs \in MerkleInputs :
            calculate_merkle_root(txs) # calculate_merkle_root(Append(txs, Last(txs)))
      /\ \A txs \in MerkleInputs, other \in MerkleInputs :
            txs # other => calculate_merkle_root(txs) # calculate_merkle_root(other)

====
